---- MODULE Spec2Model ----
(***************************************************************************)
(* Model of the counselor-dashboard notification system of dashboard.js    *)
(* (src/unnamed/part_000): the poller checkForNewNotifications, the toast  *)
(* presenter showInAppNotification, the browser-notification gate           *)
(* showBrowserNotification and the enable-notifications click handler.     *)
(*                                                                         *)
(* Time is the event loop's clock in milliseconds.  Timers fire exactly    *)
(* when they are due (the ideal setTimeout/setInterval); network responses *)
(* and user events happen in any order between the callbacks.              *)
(***************************************************************************)
EXTENDS Integers, Sequences, FiniteSets, TLC

\* ---------------------------------------------------------------- bounds
MaxTime == 12000        \* horizon of the clock, ms
MaxCount == 2           \* largest small count the server answers
MaxFlags == 2           \* longest flags list the server answers
MaxInflight == 2        \* polls whose fetch has not resolved
MaxToasts == 2          \* toasts presented or scheduled per page load
MaxRequests == 1        \* requestPermission() invocations per page load
MaxBreathingIntervals == 2  \* breathing intervals alive at once
MaxTyped == 3           \* single characters typed into a metered password field
MaxPasted == 3          \* runs of letters pasted into a metered password field
MaxSends == 2           \* chat messages sent per page load
MaxHistoryLoads == 2    \* loadChatHistory calls in flight
MaxHour == 48           \* horizon of the mood tracker's clock, hours
MaxServerCount == 3     \* flagged messages the server reaches in a session of slow polls
MaxPolls == 4           \* polls issued in a session of slow polls

\* ---------------------------------------------------- program constants
POLL_INTERVAL_MS == 10000
INITIAL_POLL_DELAY_MS == 2000
STAGGER_MS == 500
TOAST_SHOW_DELAY_MS == 100
TOAST_AUTO_REMOVE_MS == 10000
TOAST_REMOVE_TRANSITION_MS == 300
TEST_TOAST_DELAY_MS == 1000
BADGE_MAX == 99

\* ---------------------------------------------------------------- helpers
Min(a, b) == IF a < b THEN a ELSE b

\* Counts the endpoint may answer: small ones and one above the badge's cap.
Counts == (0 .. MaxCount) \cup {BADGE_MAX + 1}

PermissionStates == {"default", "granted", "denied"}

VARIABLES
    now,                    \* the clock, ms since the first page load
    page,                   \* what the document and the platform offer
    timers,                 \* pending setTimeout/setInterval callbacks, in registration order
    inflight,               \* polls awaiting their fetch
    lastNotificationCount,  \* let lastNotificationCount (part_000:205)
    badge,                  \* textContent of .notification-badge, "" = none
    flaggedTabActive,       \* #flagged-tab has class active
    permission,             \* Notification.permission
    permPending,            \* requestPermission() promises not yet settled
    requestPermissionCalls, \* who invoked requestPermission() on this page
    enableBtnDisplay,       \* enableNotificationsBtn.style.display
    toasts,                 \* .toast-notification elements created
    reloadPending,          \* location.reload() was called
    pollLog,                \* what the last handled poll saw and did
    clickLog,               \* what the enable-control clicks led to
    notifLog,               \* alert-firing polls handled and Notification objects constructed
    \* ---- student_dashboard.js
    studentPage,            \* which elements the student page holds, what its load did
    breathingInterval,      \* let breathingInterval (handle, 0 = null)
    breathingTimers,        \* live breathing intervals with their closures
    breathingModal,         \* #breathing-modal style.display
    stretchingInterval,     \* let stretchingInterval (handle, 0 = null)
    stretchingTimers,       \* handles of the live stretching intervals
    currentStretchIndex,    \* let currentStretchIndex
    stretchSequence,        \* let stretchSequence, by the name of its routine
    stretchCountdown,       \* let stretchCountdown
    stretchingModal,        \* #stretching-modal style.display
    stretchLog,             \* this session's completion alerts, ticks, user clicks
    \* ---- registration-form.js and the password-change form of dashboard.js
    form,                   \* the form of the open page: its fields and listeners
    submitLog,              \* the outcome of the last submit on the current values
    strengthField,          \* a metered password field: its value and what was rendered
    \* ---- student_dashboard.js: chat panel and mood tracker
    chatPanel,              \* #chat-messages children, #typing-indicator, chatHistoryLoaded
    chatRequests,           \* sendMessage calls awaiting their fetch
    historyRequests,        \* loadChatHistory calls awaiting their fetch
    chatServer,             \* the exchanges the server has stored
    chatLog,                \* the assistant messages appended for each send
    moodTracker,            \* the clock, the time zone, localStorage.moodHistory
    \* ---- dashboard.js: polls slower than their interval
    pollSession             \* the server's count, the polls awaiting their fetch, the toasts scheduled

\* The counselor dashboard's state (dashboard.js).
notifVars == <<now, page, timers, inflight, lastNotificationCount, badge,
               flaggedTabActive, permission, permPending,
               requestPermissionCalls, enableBtnDisplay, toasts,
               reloadPending, pollLog, clickLog, notifLog>>

\* The student dashboard's exercise state (student_dashboard.js).
studentVars == <<studentPage, breathingInterval, breathingTimers,
                 breathingModal, stretchingInterval, stretchingTimers,
                 currentStretchIndex, stretchSequence, stretchCountdown,
                 stretchingModal, stretchLog>>

\* The state of the validated forms.
formVars == <<form, submitLog, strengthField>>

\* The state of the student dashboard's chat panel and mood tracker.
panelVars == <<chatPanel, chatRequests, historyRequests, chatServer, chatLog,
               moodTracker>>

\* The state of the other pages' scripts, which the dashboard never touches.
otherPages == <<studentVars, formVars, panelVars, pollSession>>

vars == <<notifVars, otherPages>>

\* ------------------------------------------------------------ page load
\* if (window.location.pathname.includes('counselor/dashboard')) { ... }
\* registers the interval and the delayed first poll.
Timer(kind, due, toast, index, base) ==
    [kind |-> kind, due |-> due, toast |-> toast, index |-> index, base |-> base]

NotificationBlockTimers(pg, t) ==
    IF pg.pathMatches
    THEN <<Timer("interval", t + POLL_INTERVAL_MS, 0, 0, 0),
           Timer("initial", t + INITIAL_POLL_DELAY_MS, 0, 0, 0)>>
    ELSE <<>>

\* The function declaration showInAppNotification sits inside the if block:
\* in a classic (sloppy) script its binding at the top level holds the
\* function only once the block has been entered.
ShowInAppNotificationDefined == page.pathMatches

\* Lines 446-490 run at the top level.  Notification.permission is read
\* unguarded at line 450: without the Notification API this throws and the
\* click listener of line 454 is never added.
ClickHandlerRegistered == page.hasEnableBtn /\ page.hasNotification

\* if (Notification.permission !== "granted") style.display = 'flex'
InitialBtnDisplay(pg, perm) ==
    IF pg.hasEnableBtn /\ pg.hasNotification /\ perm # "granted"
    THEN "flex" ELSE ""

\* The stylesheet hides the control until the script shows it.
EnableBtnVisible == enableBtnDisplay = "flex"

NoPoll ==
    [outcome |-> "none", count |-> 0, nflags |-> 0, prevCount |-> 0,
     prevBadge |-> "", alert |-> FALSE, scheduled |-> 0,
     osNotification |-> FALSE, sound |-> FALSE, requested |-> FALSE,
     reload |-> FALSE]

NoClicks == [grants |-> 0, testToasts |-> 0, typeErrors |-> 0]

NoNotifications == [alertPolls |-> 0, created |-> 0]

Pages ==
    [pathMatches : BOOLEAN, hasEnableBtn : BOOLEAN, hasFlaggedLink : BOOLEAN,
     hasNotification : BOOLEAN, hasAudio : BOOLEAN]

\* The module-level lets of student_dashboard.js (lines 315, 401-404).
NoStretchLog == [alerts |-> 0, ticks |-> 0, skipped |-> FALSE, stopped |-> FALSE]

StudentScriptLoaded ==
    /\ breathingInterval = 0
    /\ breathingTimers = {}
    /\ breathingModal = ""
    /\ stretchingInterval = 0
    /\ stretchingTimers = {}
    /\ currentStretchIndex = 0
    /\ stretchSequence = ""
    /\ stretchCountdown = 0
    /\ stretchingModal = ""
    /\ stretchLog = NoStretchLog

\* The elements a page that includes student_dashboard.js may hold: the chat
\* box (#chat-input, #send-btn), the breathing modal with its buttons, the
\* stretching modal with its buttons, the reset form's controls.
StudentPages ==
    [hasChat : BOOLEAN, hasBreathing : BOOLEAN, hasStretching : BOOLEAN,
     hasReset : BOOLEAN]

\* A page before its DOMContentLoaded event.
StudentPageLoading(e) ==
    [elements |-> e, loaded |-> FALSE, ready |-> {}, uncaught |-> {}]

\* No page with student_dashboard.js is open.
NoStudentPage ==
    StudentPageLoading([hasChat |-> FALSE, hasBreathing |-> FALSE,
                        hasStretching |-> FALSE, hasReset |-> FALSE])

\* The chat panel with its welcome message, nothing in flight.
NoChat == [messages |-> <<>>, typing |-> "", historyLoaded |-> FALSE]

\* The hours of a day: toISOString() gives the date of the UTC day.
HoursPerDay == 24

MoodDays == 0 .. ((MaxHour \div HoursPerDay) + 1)

\* The mood tracker of a browser in UTC with an empty localStorage; saved
\* is the last mood the user chose on each day of their calendar.
NoMood ==
    [clock |-> 0, offset |-> 0, history |-> [d \in MoodDays |-> ""],
     saved |-> [d \in MoodDays |-> ""]]

\* Chat panel and mood tracker before any use.
PanelsAtRest ==
    /\ chatPanel = NoChat
    /\ chatRequests = {}
    /\ historyRequests = <<>>
    /\ chatServer = <<>>
    /\ chatLog = <<>>
    /\ moodTracker = NoMood

\* No validated form is open.
NoForm == [kind |-> "none"]

NoSubmit == [form |-> "none", blocked |-> FALSE]

\* No metered password field is open.
NoStrengthField == [value |-> <<>>, typed |-> 0, pasted |-> 0]

\* No poll issued, none handled.
NoPollSession ==
    [server |-> 0, requests |-> <<>>, issued |-> 0, scheduled |-> 0,
     highest |-> 0, first |-> 0]

\* A page that is not the counselor dashboard.
NoDashboard ==
    [pathMatches |-> FALSE, hasEnableBtn |-> FALSE, hasFlaggedLink |-> FALSE,
     hasNotification |-> FALSE, hasAudio |-> FALSE]

\* dashboard.js has run on the page.
DashboardLoaded ==
    /\ now = 0
    /\ permission \in (IF page.hasNotification THEN PermissionStates ELSE {"default"})
    /\ timers = NotificationBlockTimers(page, 0)
    /\ inflight = 0
    /\ lastNotificationCount = 0
    /\ badge = ""
    /\ flaggedTabActive \in BOOLEAN
    /\ permPending = <<>>
    /\ requestPermissionCalls = <<>>
    /\ enableBtnDisplay = InitialBtnDisplay(page, permission)
    /\ toasts = <<>>
    /\ reloadPending = FALSE
    /\ pollLog = NoPoll
    /\ clickLog = NoClicks
    /\ notifLog = NoNotifications
    /\ pollSession = NoPollSession

Init ==
    /\ studentPage = NoStudentPage
    /\ StudentScriptLoaded
    /\ PanelsAtRest
    /\ form = NoForm
    /\ submitLog = NoSubmit
    /\ strengthField = NoStrengthField
    /\ page \in Pages
    /\ DashboardLoaded

\* --------------------------------------------------------------- timers
RemoveAt(s, i) == SubSeq(s, 1, i - 1) \o SubSeq(s, i + 1, Len(s))

\* A timer runs when the clock reaches its due time; timers due at the same
\* instant run in registration order.
Due(i) ==
    /\ i \in 1 .. Len(timers)
    /\ timers[i].due = now
    /\ \A j \in 1 .. (i - 1) : timers[j].due # now

PendingOfKind(k) == {i \in 1 .. Len(timers) : timers[i].kind = k}

\* The instant of the next callback.
NextDue ==
    CHOOSE t \in {timers[i].due : i \in 1 .. Len(timers)} :
        \A i \in 1 .. Len(timers) : t <= timers[i].due

\* The clock advances, once every callback due now has run, to the instant
\* of the next callback: an event that falls between two callbacks is placed
\* at the instant of the earlier one.
Tick ==
    /\ timers # <<>>
    /\ \A i \in 1 .. Len(timers) : timers[i].due > now
    /\ NextDue <= MaxTime
    /\ now' = NextDue
    /\ UNCHANGED <<otherPages, notifLog, page, timers, inflight, lastNotificationCount, badge,
                   flaggedTabActive, permission, permPending,
                   requestPermissionCalls, enableBtnDisplay, toasts,
                   reloadPending, pollLog, clickLog>>

\* setTimeout(checkForNewNotifications, 2000): the call runs up to its
\* await fetch(...).
InitialPoll ==
    \E i \in 1 .. Len(timers) :
        /\ Due(i)
        /\ timers[i].kind = "initial"
        /\ inflight < MaxInflight
        /\ timers' = RemoveAt(timers, i)
        /\ inflight' = inflight + 1
        /\ UNCHANGED <<otherPages, notifLog, now, page, lastNotificationCount, badge,
                       flaggedTabActive, permission, permPending,
                       requestPermissionCalls, enableBtnDisplay, toasts,
                       reloadPending, pollLog, clickLog>>

\* setInterval(async function() { await checkForNewNotifications(); }, 10000)
\* The interval stays registered whatever the earlier polls did.
IntervalPoll ==
    \E i \in 1 .. Len(timers) :
        /\ Due(i)
        /\ timers[i].kind = "interval"
        /\ inflight < MaxInflight
        /\ timers' = Append(RemoveAt(timers, i),
                            Timer("interval", now + POLL_INTERVAL_MS, 0, 0, 0))
        /\ inflight' = inflight + 1
        /\ UNCHANGED <<otherPages, notifLog, now, page, lastNotificationCount, badge,
                       flaggedTabActive, permission, permPending,
                       requestPermissionCalls, enableBtnDisplay, toasts,
                       reloadPending, pollLog, clickLog>>


\* The trigger without its cold-start guard.
AlertConditionNoColdStart(count, last) == count > last

\* ----------------------------------------------- checkForNewNotifications
\* if (data.count > lastNotificationCount && lastNotificationCount > 0)
AlertCondition(count, last) == count > last /\ last > 0


\* The loop run over the whole flags list.
SliceLengthWholeList(nflags, newFlags) == nflags

\* data.flags.slice(0, newFlags).length
SliceLength(nflags, newFlags) == Min(nflags, newFlags)


\* Every toast given the same delay.
StaggerDelayFlat(index) == STAGGER_MS

\* setTimeout(() => showInAppNotification(flag), index * 500)
StaggerDelay(index) == index * STAGGER_MS

ScheduledToasts(n, t) ==
    [k \in 1 .. n |-> Timer("present", t + StaggerDelay(k - 1), 0, k - 1, t)]

\* The gate without its capability and permission checks.
showBrowserNotificationUngated(pg, perm, nflags) ==
    IF nflags = 0 THEN "threw" ELSE "created"

\* showBrowserNotification(title, data.flags[0]).  With an empty flags list
\* the flag is undefined and createBrowserNotification throws on
\* flag.student_name before the Notification is constructed.
showBrowserNotification(pg, perm, nflags) ==
    IF ~pg.hasNotification THEN "unsupported"
    ELSE IF perm = "granted"
         THEN (IF nflags = 0 THEN "threw" ELSE "created")
    ELSE IF perm # "denied" THEN "requested"
    ELSE "blocked"

\* new (window.AudioContext || window.webkitAudioContext)() throws a
\* TypeError when neither constructor exists.
playNotificationSound(pg) == IF pg.hasAudio THEN "played" ELSE "threw"

\* badge.textContent = count > 99 ? '99+' : count; no badge for count 0 and
\* nothing at all without the [data-tab="flagged"] link.
updateNotificationBadge(pg, old, count) ==
    IF ~pg.hasFlaggedLink THEN old
    ELSE IF count > 0
         THEN (IF count > BADGE_MAX THEN "99+" ELSE ToString(count))
    ELSE ""

\* The handler from the resolution of response.json() to its end.
checkForNewNotifications(count, nflags) ==
    LET last == lastNotificationCount
        alert == AlertCondition(count, last)
        newFlags == count - last
        scheduled == IF alert THEN SliceLength(nflags, newFlags) ELSE 0
        browser == IF alert
                   THEN showBrowserNotification(page, permission, nflags)
                   ELSE "skipped"
        sound == IF alert /\ browser # "threw"
                 THEN playNotificationSound(page) ELSE "skipped"
        \* an exception inside the try block jumps to the catch of line 252
        threw == browser = "threw" \/ sound = "threw"
        reload == ~threw /\ flaggedTabActive /\ alert
    IN  /\ inflight > 0
        /\ Len(toasts) + Cardinality(PendingOfKind("present"))
             + Cardinality(PendingOfKind("test")) + scheduled <= MaxToasts
        /\ browser = "requested" => Len(requestPermissionCalls) < MaxRequests
        /\ inflight' = inflight - 1
        /\ timers' = timers \o ScheduledToasts(scheduled, now)
        /\ IF browser = "requested"
           THEN /\ permPending' = Append(permPending,
                       [origin |-> "poll", hasFlag |-> nflags > 0])
                /\ requestPermissionCalls' = Append(requestPermissionCalls, "poll")
           ELSE UNCHANGED <<permPending, requestPermissionCalls>>
        /\ badge' = IF threw THEN badge
                    ELSE updateNotificationBadge(page, badge, count)
        /\ reloadPending' = (reloadPending \/ reload)
        /\ lastNotificationCount' = IF threw THEN last ELSE count
        /\ pollLog' = [outcome |-> IF threw THEN "threw" ELSE "ok",
                       count |-> count, nflags |-> nflags, prevCount |-> last,
                       prevBadge |-> badge, alert |-> alert,
                       scheduled |-> scheduled,
                       osNotification |-> (browser = "created"),
                       sound |-> (sound = "played"),
                       requested |-> (browser = "requested"),
                       reload |-> reload]
        /\ notifLog' = [alertPolls |-> notifLog.alertPolls + (IF alert THEN 1 ELSE 0),
                        created |-> notifLog.created
                                      + (IF browser = "created" THEN 1 ELSE 0)]
        /\ UNCHANGED <<otherPages, now, page, flaggedTabActive, permission,
                       enableBtnDisplay, toasts, clickLog>>

PollSucceeds ==
    \E count \in Counts, nflags \in 0 .. MaxFlags :
        checkForNewNotifications(count, nflags)


\* A catch block that forgets what the poller knew.
OnFetchFailureResets(last, oldBadge) == [count |-> 0, badge |-> ""]

\* catch (error) { console.error('Notification check failed:', error); }
\* reached from a rejected fetch or a rejected response.json().
OnFetchFailure(last, oldBadge) == [count |-> last, badge |-> oldBadge]

PollFails ==
    /\ inflight > 0
    /\ inflight' = inflight - 1
    /\ lastNotificationCount' = OnFetchFailure(lastNotificationCount, badge).count
    /\ badge' = OnFetchFailure(lastNotificationCount, badge).badge
    /\ pollLog' = [NoPoll EXCEPT !.outcome = "failed",
                                 !.prevCount = lastNotificationCount,
                                 !.prevBadge = badge]
    /\ UNCHANGED <<otherPages, notifLog, now, page, timers, flaggedTabActive, permission,
                   permPending, requestPermissionCalls, enableBtnDisplay,
                   toasts, reloadPending, clickLog>>

\* ------------------------------------------------- showInAppNotification
Toast(source, index, base, t) ==
    [source |-> source, index |-> index, base |-> base, insertedAt |-> t,
     show |-> FALSE, hide |-> FALSE, attached |-> TRUE, dismissed |-> FALSE]

\* container.appendChild(notification); setTimeout(show, 100);
\* setTimeout(hide then remove, 10000)
showInAppNotification(source, index, base, rest) ==
    /\ toasts' = Append(toasts, Toast(source, index, base, now))
    /\ timers' = rest \o
         <<Timer("show", now + TOAST_SHOW_DELAY_MS, Len(toasts) + 1, 0, 0),
           Timer("hide", now + TOAST_AUTO_REMOVE_MS, Len(toasts) + 1, 0, 0)>>

\* the staggered callback of line 227
PresentToast ==
    \E i \in 1 .. Len(timers) :
        /\ Due(i)
        /\ timers[i].kind = "present"
        /\ showInAppNotification("poll", timers[i].index, timers[i].base,
                                 RemoveAt(timers, i))
        /\ UNCHANGED <<otherPages, notifLog, now, page, inflight, lastNotificationCount, badge,
                       flaggedTabActive, permission, permPending,
                       requestPermissionCalls, enableBtnDisplay,
                       reloadPending, pollLog, clickLog>>

\* notification.classList.add('show')
ShowToast ==
    \E i \in 1 .. Len(timers) :
        /\ Due(i)
        /\ timers[i].kind = "show"
        /\ toasts' = [toasts EXCEPT ![timers[i].toast].show = TRUE]
        /\ timers' = RemoveAt(timers, i)
        /\ UNCHANGED <<otherPages, notifLog, now, page, inflight, lastNotificationCount, badge,
                       flaggedTabActive, permission, permPending,
                       requestPermissionCalls, enableBtnDisplay,
                       reloadPending, pollLog, clickLog>>

\* The element detached together with its hide class.
RemovalDueAtOnce(hiddenAt) == hiddenAt

\* setTimeout(() => notification.remove(), 300) inside the hide callback
RemovalDue(hiddenAt) == hiddenAt + TOAST_REMOVE_TRANSITION_MS

\* notification.classList.add('hide'); setTimeout(remove, 300)
HideToast ==
    \E i \in 1 .. Len(timers) :
        /\ Due(i)
        /\ timers[i].kind = "hide"
        /\ toasts' = [toasts EXCEPT ![timers[i].toast].hide = TRUE]
        /\ timers' = Append(RemoveAt(timers, i),
                            Timer("remove", RemovalDue(now), timers[i].toast, 0, 0))
        /\ UNCHANGED <<otherPages, notifLog, now, page, inflight, lastNotificationCount, badge,
                       flaggedTabActive, permission, permPending,
                       requestPermissionCalls, enableBtnDisplay,
                       reloadPending, pollLog, clickLog>>

\* notification.remove()
RemoveToast ==
    \E i \in 1 .. Len(timers) :
        /\ Due(i)
        /\ timers[i].kind = "remove"
        /\ toasts' = [toasts EXCEPT ![timers[i].toast].attached = FALSE]
        /\ timers' = RemoveAt(timers, i)
        /\ UNCHANGED <<otherPages, notifLog, now, page, inflight, lastNotificationCount, badge,
                       flaggedTabActive, permission, permPending,
                       requestPermissionCalls, enableBtnDisplay,
                       reloadPending, pollLog, clickLog>>

\* The whole container emptied instead of the one toast.
DismissedAll(ts, i) ==
    [k \in 1 .. Len(ts) |-> [ts[k] EXCEPT !.attached = FALSE, !.dismissed = TRUE]]

\* onclick="this.closest('.toast-notification').remove()" (Dismiss) and
\* onclick="this.parentElement.remove()" (the close cross): the element of
\* the clicked button leaves the document; its timers are not cleared.
Dismissed(ts, i) ==
    [ts EXCEPT ![i].attached = FALSE, ![i].dismissed = TRUE]

DismissToast ==
    \E i \in 1 .. Len(toasts) :
        /\ toasts[i].attached
        /\ toasts' = Dismissed(toasts, i)
        /\ UNCHANGED <<otherPages, notifLog, now, page, timers, inflight,
                       lastNotificationCount, badge, flaggedTabActive,
                       permission, permPending, requestPermissionCalls,
                       enableBtnDisplay, reloadPending, pollLog, clickLog>>

\* ------------------------------------------ notification permission handler
\* The click listener of line 454 up to its await: the permission is asked
\* for whatever Notification.permission already is.
EnableNotificationsClick ==
    /\ ClickHandlerRegistered
    /\ EnableBtnVisible
    /\ Len(requestPermissionCalls) < MaxRequests
    /\ permPending' = Append(permPending, [origin |-> "click", hasFlag |-> FALSE])
    /\ requestPermissionCalls' = Append(requestPermissionCalls, "click")
    /\ UNCHANGED <<otherPages, notifLog, now, page, timers, inflight, lastNotificationCount, badge,
                   flaggedTabActive, permission, enableBtnDisplay, toasts,
                   reloadPending, pollLog, clickLog>>

\* What Notification.requestPermission() may resolve to: the stored decision
\* when there is one, else the user's answer to the prompt (or "default"
\* when the prompt is dismissed).
PermissionAnswers(perm) ==
    IF perm = "default" THEN PermissionStates ELSE {perm}

\* The rest of the click listener: lines 466-488.
PermissionSettlesForClick ==
    \E answer \in PermissionAnswers(permission) :
        /\ permPending # <<>>
        /\ Head(permPending).origin = "click"
        /\ permPending' = Tail(permPending)
        /\ permission' = answer
        /\ IF answer = "granted"
           THEN /\ enableBtnDisplay' = "none"
                /\ timers' = Append(timers,
                        Timer("test", now + TEST_TOAST_DELAY_MS, 0, 0, 0))
                /\ clickLog' = [clickLog EXCEPT !.grants = @ + 1]
           ELSE UNCHANGED <<enableBtnDisplay, timers, clickLog>>
        /\ UNCHANGED <<otherPages, notifLog, now, page, inflight, lastNotificationCount, badge,
                       flaggedTabActive, requestPermissionCalls, toasts,
                       reloadPending, pollLog>>

\* if (permission === "granted") createBrowserNotification(title, flag):
\* with an undefined flag the call throws before the Notification exists.
ThenCreatesNotification(answer, hasFlag) == answer = "granted" /\ hasFlag

\* The .then() of line 340: createBrowserNotification when granted.
PermissionSettlesForPoll ==
    \E answer \in PermissionAnswers(permission) :
        /\ permPending # <<>>
        /\ Head(permPending).origin = "poll"
        /\ permPending' = Tail(permPending)
        /\ permission' = answer
        /\ notifLog' = [notifLog EXCEPT !.created = @ +
                (IF ThenCreatesNotification(answer, Head(permPending).hasFlag)
                 THEN 1 ELSE 0)]
        /\ UNCHANGED <<otherPages, now, page, timers, inflight, lastNotificationCount,
                       badge, flaggedTabActive, requestPermissionCalls,
                       enableBtnDisplay, toasts, reloadPending, pollLog,
                       clickLog>>

\* The setTimeout callback of line 475 where showInAppNotification is bound.
TestToast ==
    \E i \in 1 .. Len(timers) :
        /\ Due(i)
        /\ timers[i].kind = "test"
        /\ ShowInAppNotificationDefined
        /\ showInAppNotification("test", 0, now, RemoveAt(timers, i))
        /\ clickLog' = [clickLog EXCEPT !.testToasts = @ + 1]
        /\ UNCHANGED <<otherPages, notifLog, now, page, inflight, lastNotificationCount, badge,
                       flaggedTabActive, permission, permPending,
                       requestPermissionCalls, enableBtnDisplay,
                       reloadPending, pollLog>>

\* The same callback where the if block of line 204 never ran: the call
\* throws "showInAppNotification is not a function" and no toast is made.
TestToastTypeError ==
    \E i \in 1 .. Len(timers) :
        /\ Due(i)
        /\ timers[i].kind = "test"
        /\ ~ShowInAppNotificationDefined
        /\ timers' = RemoveAt(timers, i)
        /\ clickLog' = [clickLog EXCEPT !.typeErrors = @ + 1]
        /\ UNCHANGED <<otherPages, notifLog, now, page, inflight, lastNotificationCount, badge,
                       flaggedTabActive, permission, permPending,
                       requestPermissionCalls, enableBtnDisplay, toasts,
                       reloadPending, pollLog>>

\* ------------------------------------------------------------ navigation
\* The sidebar-link click listener of lines 13-36 moves class active.
SidebarClick ==
    /\ flaggedTabActive' = ~flaggedTabActive
    /\ UNCHANGED <<otherPages, notifLog, now, page, timers, inflight, lastNotificationCount, badge,
                   permission, permPending, requestPermissionCalls,
                   enableBtnDisplay, toasts, reloadPending, pollLog, clickLog>>

\* location.reload() takes effect: the document is replaced, its timers,
\* pending promises and variables are gone and the script runs again.
\* Notification.permission belongs to the origin and survives.
PageReload ==
    /\ reloadPending
    /\ timers' = NotificationBlockTimers(page, now)
    /\ inflight' = 0
    /\ lastNotificationCount' = 0
    /\ badge' = ""
    /\ flaggedTabActive' \in BOOLEAN
    /\ permPending' = <<>>
    /\ requestPermissionCalls' = <<>>
    /\ enableBtnDisplay' = InitialBtnDisplay(page, permission)
    /\ toasts' = <<>>
    /\ reloadPending' = FALSE
    /\ pollLog' = NoPoll
    /\ clickLog' = NoClicks
    /\ notifLog' = NoNotifications
    /\ UNCHANGED <<otherPages, now, page, permission>>

Next ==
    \/ Tick
    \/ InitialPoll
    \/ IntervalPoll
    \/ PollSucceeds
    \/ PollFails
    \/ PresentToast
    \/ ShowToast
    \/ HideToast
    \/ RemoveToast
    \/ DismissToast
    \/ EnableNotificationsClick
    \/ PermissionSettlesForClick
    \/ PermissionSettlesForPoll
    \/ TestToast
    \/ TestToastTypeError
    \/ SidebarClick
    \/ PageReload

Spec == Init /\ [][Next]_vars

\* =================================================== student_dashboard.js
\* The seconds each stretch is held (stretchCountdown = 30).
StretchSeconds == 30

\* The setup calls of the DOMContentLoaded handler, in the order of the calls.
SetupOrder ==
    <<"mobileMenu", "navigation", "chat", "breathing", "stretching", "mood",
      "chatHistory", "autoHideAlerts">>

\* chatInput.addEventListener (line 192) and modal.querySelector (lines 301,
\* 385) dereference the result of getElementById without a guard: a
\* TypeError when the element is absent.  The other setups guard their
\* elements or iterate over a possibly empty NodeList.
SetupThrows(step, e) ==
    \/ step = "chat" /\ ~e.hasChat
    \/ step = "breathing" /\ ~e.hasBreathing
    \/ step = "stretching" /\ ~e.hasStretching

\* The setups that ran to their end: those before the first one that throws.
SetupsCompleted(e) ==
    {SetupOrder[k] : k \in {i \in 1 .. Len(SetupOrder) :
                              \A j \in 1 .. i : ~SetupThrows(SetupOrder[j], e)}}

StudentHandlerThrows(e) ==
    \E i \in 1 .. Len(SetupOrder) : SetupThrows(SetupOrder[i], e)

\* The second DOMContentLoaded listener (line 550): toggleBtn.querySelector
\* at line 554 with no guard.
ResetHandlerThrows(e) == ~e.hasReset

\* loadChatHistory() up to its await fetch('/student/chat/history'): one
\* more request in flight.  The response will hold the exchanges the server
\* has stored by now.
loadChatHistory(requests) == Append(requests, [messages |-> chatServer])

\* The DOMContentLoaded event: both listeners of the file run, in the order
\* of their registration; an exception ends the listener it is thrown in.
StudentDOMContentLoaded ==
    /\ ~studentPage.loaded
    /\ LET e == studentPage.elements IN
       studentPage' =
           [studentPage EXCEPT
               !.loaded = TRUE,
               !.ready = SetupsCompleted(e) \cup
                         (IF ResetHandlerThrows(e) THEN {} ELSE {"resetPassword"}),
               !.uncaught = (IF StudentHandlerThrows(e) THEN {"student"} ELSE {}) \cup
                            (IF ResetHandlerThrows(e) THEN {"reset"} ELSE {})]
    /\ historyRequests' =
           IF "chatHistory" \in SetupsCompleted(studentPage.elements)
           THEN loadChatHistory(historyRequests) ELSE historyRequests
    /\ UNCHANGED <<notifVars, pollSession, formVars, chatPanel, chatRequests, chatServer,
                   chatLog, moodTracker, breathingInterval, breathingTimers,
                   breathingModal, stretchingInterval, stretchingTimers,
                   currentStretchIndex, stretchSequence, stretchCountdown,
                   stretchingModal, stretchLog>>

\* ---------------------------------------------------- breathing exercises
\* data-exercise of the start buttons; any other value runs the deep routine.
ExerciseTypes == {"box", "478", "deep"}

\* The duration of each phase of phases[], in seconds.
Phases(type) ==
    IF type = "box" THEN <<4, 4, 4, 4>>
    ELSE IF type = "478" THEN <<4, 7, 8>>
    ELSE <<5, 5>>

\* The phase kept for ever.
NextPhaseStays(phaseIndex, length) == phaseIndex

\* phaseIndex = (phaseIndex + 1) % phases.length
NextPhase(phaseIndex, length) == (phaseIndex + 1) % length

\* One call of the closure updateBreathing with its variables c: countdown--,
\* and below zero the next phase with its duration.
updateBreathing(c) ==
    IF c.countdown - 1 < 0
    THEN LET next == NextPhase(c.phaseIndex, Len(Phases(c.type))) IN
         [c EXCEPT !.phaseIndex = next, !.countdown = Phases(c.type)[next + 1]]
    ELSE [c EXCEPT !.countdown = c.countdown - 1]

\* The handle setInterval returns: one no live interval holds.
FreshHandle(used) == CHOOSE h \in 1 .. (Cardinality(used) + 1) : h \notin used

BreathingHandles == {t.id : t \in breathingTimers}

\* startBreathingExercise(type): the modal shown, the closure's variables
\* set, updateBreathing() called once, a new interval registered.  The
\* interval breathingInterval held before is not cleared.
StartBreathingExercise ==
    \E type \in ExerciseTypes :
        /\ "breathing" \in studentPage.ready
        /\ Cardinality(breathingTimers) < MaxBreathingIntervals
        /\ LET id == FreshHandle(BreathingHandles)
               c == [id |-> id, type |-> type, phaseIndex |-> 0,
                     countdown |-> Phases(type)[1]]
           IN /\ breathingTimers' = breathingTimers \cup {updateBreathing(c)}
              /\ breathingInterval' = id
        /\ breathingModal' = "flex"
        /\ UNCHANGED <<notifVars, pollSession, formVars, panelVars, studentPage, stretchingInterval,
                       stretchingTimers, currentStretchIndex, stretchSequence,
                       stretchCountdown, stretchingModal, stretchLog>>

\* stopBreathingExercise, from the close and stop buttons of the shown modal.
StopBreathingExercise ==
    /\ "breathing" \in studentPage.ready
    /\ breathingModal = "flex"
    /\ breathingTimers' = {t \in breathingTimers : t.id # breathingInterval}
    /\ breathingInterval' = 0
    /\ breathingModal' = "none"
    /\ UNCHANGED <<notifVars, pollSession, formVars, panelVars, studentPage, stretchingInterval,
                   stretchingTimers, currentStretchIndex, stretchSequence,
                   stretchCountdown, stretchingModal, stretchLog>>

\* A live interval calls its updateBreathing.
BreathingTick ==
    \E t \in breathingTimers :
        /\ breathingTimers' = (breathingTimers \ {t}) \cup {updateBreathing(t)}
        /\ UNCHANGED <<notifVars, pollSession, formVars, panelVars, studentPage, breathingInterval,
                       breathingModal, stretchingInterval, stretchingTimers,
                       currentStretchIndex, stretchSequence, stretchCountdown,
                       stretchingModal, stretchLog>>

\* --------------------------------------------------- stretching exercises
\* data-stretch of the start buttons; any other value runs the full routine.
StretchTypes == {"neck", "shoulder", "full"}

\* stretchSequence.length
SequenceLength(seq) ==
    IF seq = "" THEN 0
    ELSE IF seq \in {"neck", "shoulder"} THEN 4
    ELSE 6

\* A sequence that shows one entry past its last.
SessionContinuesPastEnd(index, seq) == index <= SequenceLength(seq)

\* if (currentStretchIndex < stretchSequence.length)
SessionContinues(index, seq) == index < SequenceLength(seq)

\* The next stretch shown with the countdown left as it was.
displayStretchKeepsCountdown(live) ==
    /\ stretchCountdown' = stretchCountdown
    /\ stretchingInterval' = FreshHandle(live \cup {stretchingInterval})
    /\ stretchingTimers' = (live \ {stretchingInterval}) \cup {stretchingInterval'}

\* displayStretch(): the countdown reset, the interval the handle names
\* cleared, a new interval registered.  live: the intervals still running.
displayStretch(live) ==
    /\ stretchCountdown' = StretchSeconds
    /\ stretchingInterval' = FreshHandle(live \cup {stretchingInterval})
    /\ stretchingTimers' = (live \ {stretchingInterval}) \cup {stretchingInterval'}

\* stopStretchingExercise()
stopStretchingExercise(live) ==
    /\ stretchingTimers' = live \ {stretchingInterval}
    /\ stretchingInterval' = 0
    /\ stretchingModal' = "none"

\* nextStretch(): the next entry shown, or past the last one the session
\* stopped and the completion alert shown.
nextStretch(live, log) ==
    /\ currentStretchIndex' = currentStretchIndex + 1
    /\ IF SessionContinues(currentStretchIndex + 1, stretchSequence)
       THEN /\ displayStretch(live)
            /\ stretchLog' = log
            /\ UNCHANGED stretchingModal
       ELSE /\ stopStretchingExercise(live)
            /\ stretchLog' = [log EXCEPT !.alerts = @ + 1]
            /\ UNCHANGED stretchCountdown

\* startStretchingExercise(type)
StartStretchingExercise ==
    \E type \in StretchTypes :
        /\ "stretching" \in studentPage.ready
        /\ stretchingModal' = "flex"
        /\ stretchSequence' = type
        /\ currentStretchIndex' = 0
        /\ displayStretch(stretchingTimers)
        /\ stretchLog' = NoStretchLog
        /\ UNCHANGED <<notifVars, pollSession, formVars, panelVars, studentPage, breathingInterval,
                       breathingTimers, breathingModal>>

\* The interval callback of displayStretch: stretchCountdown--, and at zero
\* clearInterval(stretchingInterval); nextStretch().
StretchTick ==
    \E h \in stretchingTimers :
        LET log == IF stretchLog.skipped THEN stretchLog
                   ELSE [stretchLog EXCEPT !.ticks = @ + 1]
        IN /\ IF stretchCountdown - 1 <= 0
              THEN nextStretch(stretchingTimers \ {stretchingInterval}, log)
              ELSE /\ stretchCountdown' = stretchCountdown - 1
                   /\ stretchLog' = log
                   /\ UNCHANGED <<stretchingInterval, stretchingTimers,
                                  currentStretchIndex, stretchingModal>>
           /\ UNCHANGED <<notifVars, pollSession, formVars, panelVars, studentPage, breathingInterval,
                          breathingTimers, breathingModal, stretchSequence>>

\* A click on #next-stretch-btn of the shown modal.
NextStretchClick ==
    /\ "stretching" \in studentPage.ready
    /\ stretchingModal = "flex"
    /\ nextStretch(stretchingTimers, [stretchLog EXCEPT !.skipped = TRUE])
    /\ UNCHANGED <<notifVars, pollSession, formVars, panelVars, studentPage, breathingInterval,
                   breathingTimers, breathingModal, stretchSequence>>

\* A click on the close or stop button of the shown modal.
StopStretchingClick ==
    /\ "stretching" \in studentPage.ready
    /\ stretchingModal = "flex"
    /\ stopStretchingExercise(stretchingTimers)
    /\ stretchLog' = [stretchLog EXCEPT !.stopped = TRUE]
    /\ UNCHANGED <<notifVars, pollSession, formVars, panelVars, studentPage, breathingInterval,
                   breathingTimers, breathingModal, currentStretchIndex,
                   stretchSequence, stretchCountdown>>

\* A page with student_dashboard.js opens; no dashboard, no form.
StudentPageOpens ==
    /\ studentPage \in {StudentPageLoading(e) : e \in StudentPages}
    /\ StudentScriptLoaded
    /\ form = NoForm
    /\ submitLog = NoSubmit
    /\ strengthField = NoStrengthField
    /\ page = NoDashboard
    /\ DashboardLoaded
    /\ ~flaggedTabActive

StudentInit ==
    /\ StudentPageOpens
    /\ PanelsAtRest

\* The breathing and the stretching sequencer share no variable: each is
\* explored with the other one at rest.
BreathingNext ==
    \/ StudentDOMContentLoaded
    \/ StartBreathingExercise
    \/ StopBreathingExercise
    \/ BreathingTick

SpecBreathing == StudentInit /\ [][BreathingNext]_vars

StretchingNext ==
    \/ StudentDOMContentLoaded
    \/ StartStretchingExercise
    \/ StretchTick
    \/ NextStretchClick
    \/ StopStretchingClick

SpecStretching == StudentInit /\ [][StretchingNext]_vars

\* ======================== registration-form.js, password change (dashboard.js)
\* if (passwordField.value.length < 8), if (newPassword.length < 8)
MinPasswordLength == 8

\* ---- field values: sequences of characters
StrOf(n, c) == [i \in 1 .. n |-> c]

RECURSIVE TrimStart(_)
TrimStart(s) ==
    IF s # <<>> /\ Head(s) = " " THEN TrimStart(Tail(s)) ELSE s

RECURSIVE TrimEnd(_)
TrimEnd(s) ==
    IF s # <<>> /\ s[Len(s)] = " " THEN TrimEnd(SubSeq(s, 1, Len(s) - 1)) ELSE s

\* String.prototype.trim()
Trim(s) == TrimEnd(TrimStart(s))

\* this.value.replace(/\s+/g, ' ') of the text inputs (line 226)
RECURSIVE CollapseSpaces(_)
CollapseSpaces(s) ==
    IF Len(s) < 2 THEN s
    ELSE IF s[1] = " " /\ s[2] = " " THEN CollapseSpaces(Tail(s))
    ELSE <<s[1]>> \o CollapseSpaces(Tail(s))

\* What the user may leave in a required text field.
TextInputs == {<<>>, <<" ">>, <<" ", " ">>, <<"x">>, <<" ", "x", " ">>}

\* What the user may leave in a password field: nothing, one character
\* short, just long enough, and a second value of that length.
PasswordInputs ==
    {StrOf(0, "a"), StrOf(MinPasswordLength - 1, "a"),
     StrOf(MinPasswordLength, "a"),
     StrOf(MinPasswordLength - 1, "a") \o <<"b">>}

\* ---- registration-form.js
\* The student form has no password field, the counselor form has
\* #counselor_password and #counselor_password_confirm.
RegistrationForms ==
    {[kind |-> "registration", hasPasswordFields |-> b, required |-> <<>>,
      password |-> <<>>, confirm |-> <<>>, customValidity |-> FALSE] :
        b \in BOOLEAN}

\* The input listeners of a required text field: its value with the runs
\* of white space collapsed.
InputRequired ==
    \E v \in TextInputs :
        /\ form.kind = "registration"
        /\ form' = [form EXCEPT !.required = CollapseSpaces(v)]
        /\ submitLog' = NoSubmit
        /\ UNCHANGED <<notifVars, pollSession, studentVars, panelVars, strengthField>>

\* The input listener of #counselor_password_confirm:
\* setCustomValidity('Passwords do not match') or setCustomValidity('').
InputConfirm ==
    \E v \in PasswordInputs :
        /\ form.kind = "registration"
        /\ form.hasPasswordFields
        /\ form' = [form EXCEPT !.confirm = v,
                                !.customValidity = (v # form.password)]
        /\ submitLog' = NoSubmit
        /\ UNCHANGED <<notifVars, pollSession, studentVars, panelVars, strengthField>>

\* The input listener of #counselor_password: the confirmation is checked
\* again only if (confirmPasswordField.value).
InputPassword ==
    \E v \in PasswordInputs :
        /\ form.kind = "registration"
        /\ form.hasPasswordFields
        /\ form' = [form EXCEPT !.password = v,
                                !.customValidity =
                                    IF form.confirm # <<>>
                                    THEN form.confirm # v ELSE @]
        /\ submitLog' = NoSubmit
        /\ UNCHANGED <<notifVars, pollSession, studentVars, panelVars, strengthField>>

\* let isValid of the submit listener (lines 234-288)
isValid(f) ==
    /\ Trim(f.required) # <<>>
    /\ ~(f.hasPasswordFields /\ f.password # f.confirm)
    /\ ~(f.hasPasswordFields /\ Len(f.password) < MinPasswordLength)

\* A submit of the registration form: the browser holds back a form with a
\* field of non-empty custom validity; otherwise the submit listener runs
\* and calls e.preventDefault() if (!isValid).
SubmitRegistration ==
    /\ form.kind = "registration"
    /\ submitLog' = [form |-> "registration",
                     blocked |-> (form.customValidity \/ ~isValid(form))]
    /\ UNCHANGED <<notifVars, pollSession, studentVars, panelVars, form, strengthField>>

\* ---- password change, dashboard.js lines 533-640
\* Notification.permission at line 450 is evaluated whenever the enable
\* button exists: a ReferenceError without the Notification API, which ends
\* the script before the function expressions of lines 533 and 645.
TopLevelThrows(pg) == pg.hasEnableBtn /\ ~pg.hasNotification

\* The password-change form with its inputs, message and button on a page
\* whose dashboard.js has run.
PasswordChangeForm(pg) ==
    [kind |-> "passwordChange", handlers |-> ~TopLevelThrows(pg),
     newPassword |-> <<>>, confirmPassword |-> <<>>, submitDisabled |-> FALSE]

\* checkPasswordMatch(): submitBtn.disabled afterwards.
checkPasswordMatch(new, confirm, disabled) ==
    IF confirm = <<>> THEN disabled ELSE new # confirm

InputNewPassword ==
    \E v \in PasswordInputs :
        /\ form.kind = "passwordChange"
        /\ form' = [form EXCEPT !.newPassword = v,
                                !.submitDisabled =
                                    IF form.handlers
                                    THEN checkPasswordMatch(v, form.confirmPassword, @)
                                    ELSE @]
        /\ submitLog' = NoSubmit
        /\ UNCHANGED <<notifVars, pollSession, studentVars, panelVars, strengthField>>

InputConfirmPassword ==
    \E v \in PasswordInputs :
        /\ form.kind = "passwordChange"
        /\ form' = [form EXCEPT !.confirmPassword = v,
                                !.submitDisabled =
                                    IF form.handlers
                                    THEN checkPasswordMatch(form.newPassword, v, @)
                                    ELSE @]
        /\ submitLog' = NoSubmit
        /\ UNCHANGED <<notifVars, pollSession, studentVars, panelVars, strengthField>>

\* The submit listener of #password-change-form (lines 623-638):
\* e.preventDefault() on a mismatch, then on a short password.
PasswordSubmitPrevented(f) ==
    \/ f.newPassword # f.confirmPassword
    \/ Len(f.newPassword) < MinPasswordLength

\* A submit of the password-change form: none through a disabled button;
\* otherwise the listener, if it was registered, decides.
SubmitPasswordChange ==
    /\ form.kind = "passwordChange"
    /\ submitLog' = [form |-> "passwordChange",
                     blocked |-> \/ form.submitDisabled
                                 \/ (form.handlers /\ PasswordSubmitPrevented(form))]
    /\ UNCHANGED <<notifVars, pollSession, studentVars, panelVars, form, strengthField>>

\* ---- reset-password page, student_dashboard.js lines 548-633
\* The reset form with all its controls: the listener of line 550 has run
\* to its end.
ResetPasswordForm ==
    [kind |-> "resetPassword", handlers |-> TRUE,
     newPassword |-> <<>>, confirmPassword |-> <<>>, submitDisabled |-> FALSE]

\* checkMatch(): submitBtn.disabled afterwards.
checkMatch(pw, cfm) ==
    IF cfm = <<>> THEN FALSE
    ELSE IF pw = cfm THEN FALSE
    ELSE TRUE

\* newPwEl input listener: renderStrength(this.value); checkMatch()
InputResetNewPassword ==
    \E v \in PasswordInputs :
        /\ form.kind = "resetPassword"
        /\ form' = [form EXCEPT !.newPassword = v,
                                !.submitDisabled = checkMatch(v, form.confirmPassword)]
        /\ UNCHANGED <<notifVars, pollSession, studentVars, panelVars, submitLog, strengthField>>

\* confirmEl input listener: checkMatch
InputResetConfirm ==
    \E v \in PasswordInputs :
        /\ form.kind = "resetPassword"
        /\ form' = [form EXCEPT !.confirmPassword = v,
                                !.submitDisabled = checkMatch(form.newPassword, v)]
        /\ UNCHANGED <<notifVars, pollSession, studentVars, panelVars, submitLog, strengthField>>

\* A registration page, the reset-password page, or a dashboard page with
\* the password-change form.
FormsInit ==
    /\ studentPage = NoStudentPage
    /\ StudentScriptLoaded
    /\ PanelsAtRest
    /\ PanelsAtRest
    /\ submitLog = NoSubmit
    /\ strengthField = NoStrengthField
    /\ \/ /\ page = NoDashboard
          /\ form \in RegistrationForms \cup {ResetPasswordForm}
       \/ /\ page \in Pages
          /\ form = PasswordChangeForm(page)
    /\ DashboardLoaded
    /\ ~flaggedTabActive

FormsNext ==
    \/ InputRequired
    \/ InputConfirm
    \/ InputPassword
    \/ SubmitRegistration
    \/ InputNewPassword
    \/ InputConfirmPassword
    \/ SubmitPasswordChange
    \/ InputResetNewPassword
    \/ InputResetConfirm

SpecForms == FormsInit /\ [][FormsNext]_vars

\* ================================== password strength meters
\* checkPasswordStrength (dashboard.js) and getStrength (reset_password.js)
\* The characters typed: one of each class the regular expressions tell
\* apart.
PasswordChars == {"a", "A", "1", "!"}

\* /[a-z]/.test(p)
HasLower(p) == \E i \in 1 .. Len(p) : p[i] \in {"a"}

\* /[A-Z]/.test(p)
HasUpper(p) == \E i \in 1 .. Len(p) : p[i] \in {"A"}

\* /\d/.test(p)
HasDigit(p) == \E i \in 1 .. Len(p) : p[i] \in {"1"}

\* /[^a-zA-Z\d]/.test(p)
HasSymbol(p) == \E i \in 1 .. Len(p) : p[i] \notin {"a", "A", "1"}

Bit(b) == IF b THEN 1 ELSE 0

\* A label table with "Good password" for four criteria.
StrengthTextFlat(strength) ==
    IF strength <= 1 THEN "Weak password"
    ELSE IF strength = 2 THEN "Fair password"
    ELSE "Good password"

\* The if chain of lines 603-615.
StrengthText(strength) ==
    IF strength <= 1 THEN "Weak password"
    ELSE IF strength = 2 THEN "Fair password"
    ELSE IF strength = 3 THEN "Good password"
    ELSE IF strength >= 4 THEN "Strong password"
    ELSE "Too weak"

\* A length criterion met by eight characters only.
checkPasswordStrengthExactLength(password) ==
    LET strength == Bit(Len(password) = 8) + Bit(Len(password) >= 12)
                      + Bit(HasLower(password) /\ HasUpper(password))
                      + Bit(HasDigit(password)) + Bit(HasSymbol(password))
    IN [level |-> strength, text |-> StrengthText(strength)]

\* checkPasswordStrength(password), dashboard.js lines 592-618
checkPasswordStrength(password) ==
    LET strength == Bit(Len(password) >= 8) + Bit(Len(password) >= 12)
                      + Bit(HasLower(password) /\ HasUpper(password))
                      + Bit(HasDigit(password)) + Bit(HasSymbol(password))
    IN [level |-> strength, text |-> StrengthText(strength)]

\* const levels of getStrength
StrengthLevels ==
    <<"Too short", "Weak", "Fair", "Good", "Strong", "Very strong">>

\* getStrength(pw), student_dashboard.js lines 573-590
getStrength(pw) ==
    LET score == Bit(Len(pw) >= 8) + Bit(Len(pw) >= 12)
                   + Bit(HasLower(pw) /\ HasUpper(pw))
                   + Bit(HasDigit(pw)) + Bit(HasSymbol(pw))
    IN [score |-> score, text |-> StrengthLevels[Min(score, 5) + 1]]

\* The letters one paste adds.
PastedRun == StrOf(4, "a")

\* The input listeners of the two metered fields after the value became v.
MeteredField(v, typed, pasted) ==
    [value |-> v, typed |-> typed, pasted |-> pasted,
     change |-> checkPasswordStrength(v), reset |-> getStrength(v)]

\* One character typed at the end of the field.
TypeChar ==
    \E c \in PasswordChars :
        /\ strengthField.typed < MaxTyped
        /\ strengthField' = MeteredField(Append(strengthField.value, c),
                                         strengthField.typed + 1,
                                         strengthField.pasted)
        /\ UNCHANGED <<notifVars, pollSession, studentVars, panelVars, form, submitLog>>

\* A run of letters pasted at the end of the field.
PasteRun ==
    /\ strengthField.pasted < MaxPasted
    /\ strengthField' = MeteredField(strengthField.value \o PastedRun,
                                     strengthField.typed,
                                     strengthField.pasted + 1)
    /\ UNCHANGED <<notifVars, pollSession, studentVars, panelVars, form, submitLog>>

\* A page with a metered password field, empty.
StrengthInit ==
    /\ studentPage = NoStudentPage
    /\ StudentScriptLoaded
    /\ PanelsAtRest
    /\ PanelsAtRest
    /\ form = NoForm
    /\ submitLog = NoSubmit
    /\ strengthField = MeteredField(<<>>, 0, 0)
    /\ page = NoDashboard
    /\ DashboardLoaded
    /\ ~flaggedTabActive

StrengthNext ==
    \/ TypeChar
    \/ PasteRun

SpecStrength == StrengthInit /\ [][StrengthNext]_vars

\* ===================================== polls slower than their interval
\* The interval of line 209 calls checkForNewNotifications every 10 s
\* whether or not the earlier call has returned; each fetch is answered
\* with the count the server held when it served it, and the answers come
\* back in any order.  Toasts are counted as they are scheduled.
ServerCountRises ==
    \E c \in (pollSession.server + 1) .. MaxServerCount :
        /\ pollSession' = [pollSession EXCEPT !.server = c]
        /\ UNCHANGED <<notifVars, studentVars, formVars, panelVars>>

\* checkForNewNotifications() up to its await fetch(...), the server's
\* answer on its way.
SlowPollIssued ==
    \E nflags \in 0 .. Min(pollSession.server, MaxFlags) :
        /\ pollSession.issued < MaxPolls
        /\ Len(pollSession.requests) < MaxInflight
        /\ pollSession' =
               [pollSession EXCEPT
                   !.issued = @ + 1,
                   !.requests = Append(@, [count |-> pollSession.server,
                                           nflags |-> nflags])]
        /\ UNCHANGED <<notifVars, studentVars, formVars, panelVars>>

\* checkForNewNotifications() from the resolution of response.json() (lines
\* 219-251), for whichever answer arrives first.  A permission prompt the
\* alert opens stays unanswered.
SlowPollHandled ==
    \E i \in 1 .. Len(pollSession.requests) :
        LET count == pollSession.requests[i].count
            nflags == pollSession.requests[i].nflags
            last == lastNotificationCount
            alert == AlertCondition(count, last)
            scheduled == IF alert THEN SliceLength(nflags, count - last) ELSE 0
            browser == IF alert
                       THEN showBrowserNotification(page, permission, nflags)
                       ELSE "skipped"
            sound == IF alert /\ browser # "threw"
                     THEN playNotificationSound(page) ELSE "skipped"
            threw == browser = "threw" \/ sound = "threw"
        IN  /\ lastNotificationCount' = IF threw THEN last ELSE count
            /\ badge' = IF threw THEN badge
                        ELSE updateNotificationBadge(page, badge, count)
            /\ pollSession' =
                   [pollSession EXCEPT
                       !.requests = RemoveAt(@, i),
                       !.scheduled = @ + scheduled,
                       !.highest = IF count > @ THEN count ELSE @,
                       !.first = IF @ = 0 /\ ~threw THEN count ELSE @]
            /\ UNCHANGED <<studentVars, formVars, panelVars, now, page, timers,
                           inflight, flaggedTabActive, permission, permPending,
                           requestPermissionCalls, enableBtnDisplay, toasts,
                           reloadPending, pollLog, clickLog, notifLog>>

\* A rejected fetch or response.json(): the catch block of line 252.
SlowPollFails ==
    \E i \in 1 .. Len(pollSession.requests) :
        /\ pollSession' = [pollSession EXCEPT !.requests = RemoveAt(@, i)]
        /\ UNCHANGED <<notifVars, studentVars, formVars, panelVars>>

\* The dashboard with its poller started, another tab than the flagged one
\* shown, in a browser that can play the alert sound.
OverlapInit ==
    /\ studentPage = NoStudentPage
    /\ StudentScriptLoaded
    /\ PanelsAtRest
    /\ form = NoForm
    /\ submitLog = NoSubmit
    /\ strengthField = NoStrengthField
    /\ page \in {pg \in Pages : pg.hasAudio /\ NotificationBlockTimers(pg, 0) # <<>>}
    /\ DashboardLoaded
    /\ ~flaggedTabActive

OverlapNext ==
    \/ ServerCountRises
    \/ SlowPollIssued
    \/ SlowPollHandled
    \/ SlowPollFails

SpecOverlap == OverlapInit /\ [][OverlapNext]_vars

\* ============================================ chat panel and mood tracker
\* ---- sendMessage, student_dashboard.js lines 209-253
UserMessage(n) == [role |-> "user", id |-> n, kind |-> "sent"]

AssistantMessage(n, kind) == [role |-> "ai", id |-> n, kind |-> kind]

\* How the fetch of a send can end: a payload with success and ai_response,
\* a payload without, a rejected fetch, a rejected response.json().
ChatOutcomes == {"success", "unsuccessful", "network", "decode"}

\* The text of a failure shown as it came.
AssistantTextRaw(outcome) ==
    IF outcome = "success" THEN "reply"
    ELSE IF outcome = "unsuccessful" THEN "fallback"
    ELSE "error"

\* displayAIMessage(data.ai_response) on success, the fixed apology in the
\* else branch (line 245) and in the catch block (line 250).
AssistantText(outcome) ==
    IF outcome = "success" THEN "reply" ELSE "fallback"

\* sendMessage() up to its await fetch: nothing for a blank input, else the
\* user's message displayed, the indicator shown, the request in flight.
SendMessage ==
    \E v \in TextInputs :
        /\ "chat" \in studentPage.ready
        /\ Len(chatLog) < MaxSends
        /\ IF Trim(v) = <<>>
           THEN UNCHANGED <<chatPanel, chatRequests, chatLog>>
           ELSE LET n == Len(chatLog) + 1 IN
                /\ chatPanel' = [chatPanel EXCEPT
                                    !.messages = Append(@, UserMessage(n)),
                                    !.typing = "flex"]
                /\ chatRequests' = chatRequests \cup {n}
                /\ chatLog' = Append(chatLog, [appended |-> 0, outcome |-> "none"])
        /\ UNCHANGED <<notifVars, pollSession, formVars, studentVars, historyRequests,
                       chatServer, moodTracker>>

\* sendMessage() from the end of its fetch: hideTypingIndicator(), then one
\* assistant message.  The server stores an exchange it answers.
ChatResponse ==
    \E n \in chatRequests, outcome \in ChatOutcomes :
        /\ chatPanel' = [chatPanel EXCEPT
                            !.messages = Append(@, AssistantMessage(n, AssistantText(outcome))),
                            !.typing = "none"]
        /\ chatRequests' = chatRequests \ {n}
        /\ chatServer' = IF outcome = "success" THEN Append(chatServer, n)
                         ELSE chatServer
        /\ chatLog' = [chatLog EXCEPT ![n] = [appended |-> @.appended + 1,
                                              outcome |-> outcome]]
        /\ UNCHANGED <<notifVars, pollSession, formVars, studentVars, historyRequests,
                       moodTracker>>

\* ---- loadChatHistory, lines 149-183
\* displayUserMessage(msg.content), displayAIMessage(msg.ai_response) for
\* every stored exchange.
HistoryMessages(ids) ==
    [k \in 1 .. (2 * Len(ids)) |->
        IF k % 2 = 1 THEN UserMessage(ids[(k + 1) \div 2])
        ELSE AssistantMessage(ids[k \div 2], "reply")]

\* A history response with response.ok: for a non-empty list the panel is
\* emptied (innerHTML = '') and filled from the list.
HistoryArrives ==
    \E i \in 1 .. Len(historyRequests) :
        /\ historyRequests' = RemoveAt(historyRequests, i)
        /\ chatPanel' =
               IF historyRequests[i].messages # <<>>
               THEN [chatPanel EXCEPT
                        !.messages = HistoryMessages(historyRequests[i].messages),
                        !.historyLoaded = TRUE]
               ELSE chatPanel
        /\ UNCHANGED <<notifVars, pollSession, formVars, studentVars, chatRequests,
                       chatServer, chatLog, moodTracker>>

\* !response.ok, or a rejected fetch caught at line 180.
HistoryFails ==
    \E i \in 1 .. Len(historyRequests) :
        /\ historyRequests' = RemoveAt(historyRequests, i)
        /\ UNCHANGED <<notifVars, pollSession, formVars, studentVars, chatPanel,
                       chatRequests, chatServer, chatLog, moodTracker>>

\* The click listener of the sidebar link of the chat section (lines
\* 136-139): if (!chatHistoryLoaded) loadChatHistory().
NavigateToChat ==
    /\ "navigation" \in studentPage.ready
    /\ ~chatPanel.historyLoaded
    /\ Len(historyRequests) < MaxHistoryLoads
    /\ historyRequests' = loadChatHistory(historyRequests)
    /\ UNCHANGED <<notifVars, pollSession, formVars, studentVars, chatPanel, chatRequests,
                   chatServer, chatLog, moodTracker>>

\* The page opens for a student with or without an earlier exchange.
ChatInit ==
    /\ StudentPageOpens
    /\ chatPanel = NoChat
    /\ chatRequests = {}
    /\ historyRequests = <<>>
    /\ chatServer \in {<<>>, <<0>>}
    /\ chatLog = <<>>
    /\ moodTracker = NoMood

ChatNext ==
    \/ StudentDOMContentLoaded
    \/ SendMessage
    \/ ChatResponse
    \/ HistoryArrives
    \/ HistoryFails
    \/ NavigateToChat

SpecChat == ChatInit /\ [][ChatNext]_vars

\* ---- saveMood, lines 515-521
Moods == {"great", "bad"}

\* The browser's time zone, hours east of UTC: UTC and West Africa Time.
TimezoneOffsets == {0, 1}

\* new Date().toISOString().split('T')[0]: the date of the UTC day.
IsoDate(clock) == clock \div HoursPerDay

\* moodData[today] = mood on the parsed moodHistory, stored again.
saveMood(history, clock, mood) == [history EXCEPT ![IsoDate(clock)] = mood]

\* A click on a mood button.
SaveMood ==
    \E mood \in Moods :
        /\ "mood" \in studentPage.ready
        /\ moodTracker' =
               [moodTracker EXCEPT
                   !.history = saveMood(@, moodTracker.clock, mood),
                   !.saved[(moodTracker.clock + moodTracker.offset) \div HoursPerDay] = mood]
        /\ UNCHANGED <<notifVars, pollSession, formVars, studentVars, chatPanel,
                       chatRequests, historyRequests, chatServer, chatLog>>

\* Time passes.
MoodClockAdvances ==
    \E t \in (moodTracker.clock + 1) .. MaxHour :
        /\ moodTracker' = [moodTracker EXCEPT !.clock = t]
        /\ UNCHANGED <<notifVars, pollSession, formVars, studentVars, chatPanel,
                       chatRequests, historyRequests, chatServer, chatLog>>

\* The page opens at the start of a UTC day, with or without the mood of
\* the day before in localStorage.
MoodInit ==
    /\ StudentPageOpens
    /\ chatPanel = NoChat
    /\ chatRequests = {}
    /\ historyRequests = <<>>
    /\ chatServer = <<>>
    /\ chatLog = <<>>
    /\ moodTracker \in
           {[NoMood EXCEPT !.clock = HoursPerDay, !.offset = o,
                           !.history[0] = m, !.saved[0] = m] :
               o \in TimezoneOffsets, m \in Moods \cup {""}}

MoodNext ==
    \/ StudentDOMContentLoaded
    \/ SaveMood
    \/ MoodClockAdvances

SpecMood == MoodInit /\ [][MoodNext]_vars

\* ================================================================ claims
HandledPoll == pollLog.outcome \in {"ok", "threw"}

\* C1: a handled poll enters the alert pipeline (schedules the toasts of the
\* first flags, then the browser notification and the sound) exactly when
\* the response count exceeds lastNotificationCount and lastNotificationCount
\* is positive; a cold-start poll and a poll with an equal or lower count
\* schedule no toast, play no sound, create no browser notification and ask
\* for no permission.
C1_AlertIffIncreaseFromPositive ==
    HandledPoll =>
        LET cond == pollLog.count > pollLog.prevCount /\ pollLog.prevCount > 0
            effects == \/ pollLog.scheduled > 0
                       \/ pollLog.osNotification
                       \/ pollLog.sound
                       \/ pollLog.requested
        IN  /\ effects => cond
            /\ cond <=> pollLog.alert
            /\ cond => pollLog.scheduled =
                         Min(pollLog.nflags, pollLog.count - pollLog.prevCount)

C1_Witness ==
    /\ pollLog.outcome = "ok"
    /\ pollLog.prevCount = 1
    /\ pollLog.count = 2
    /\ pollLog.scheduled = 1
    /\ pollLog.sound
    /\ pollLog.osNotification

\* C2 (as claimed): after every poll whose fetch and decode succeeded,
\* lastNotificationCount equals the response count.
C2_LastCountIsResponseCount ==
    HandledPoll => lastNotificationCount = pollLog.count

\* C3: a poll whose fetch or decode fails changes nothing: the count, the
\* badge, the timers (no toast scheduled, the interval still registered),
\* the toasts, the permission requests and the pending reload are as before.
C3_FailedPollIsNoOp ==
    [][(inflight' = inflight - 1 /\ pollLog'.outcome = "failed") =>
          /\ lastNotificationCount' = lastNotificationCount
          /\ badge' = badge
          /\ timers' = timers
          /\ \E i \in 1 .. Len(timers') : timers'[i].kind = "interval"
          /\ toasts' = toasts
          /\ permPending' = permPending
          /\ requestPermissionCalls' = requestPermissionCalls
          /\ permission' = permission
          /\ reloadPending' = reloadPending]_vars

C3_Witness ==
    /\ pollLog.outcome = "failed"
    /\ pollLog.prevCount > 0
    /\ lastNotificationCount = pollLog.prevCount
    /\ badge = pollLog.prevBadge
    /\ badge # ""
    /\ \E i \in 1 .. Len(timers) :
          timers[i].kind = "interval" /\ timers[i].due > now

BadgeFor(count) ==
    IF count = 0 THEN "" ELSE IF count > 99 THEN "99+" ELSE ToString(count)

\* C4 (as claimed): after every poll whose fetch and decode succeeded the
\* badge of the flagged link shows the response count, none for 0.
C4_BadgeShowsResponseCount ==
    (HandledPoll /\ page.hasFlaggedLink) => badge = BadgeFor(pollLog.count)

\* C5 (as claimed): an alert-firing poll schedules exactly
\* delta = count - lastNotificationCount toasts.
C5_SchedulesExactlyDelta ==
    (HandledPoll /\ pollLog.alert) =>
        pollLog.scheduled = pollLog.count - pollLog.prevCount

\* C5 (amended): an alert-firing poll appends one toast timer for each of
\* the first delta flags the response holds, min(delta, flags.length) in
\* all, for indices 0, 1, ... in response order.
C5_SchedulesFirstFlagsPresent ==
    [][(inflight' = inflight - 1 /\ pollLog'.outcome \in {"ok", "threw"}
          /\ pollLog'.alert) =>
          LET delta == pollLog'.count - lastNotificationCount
              n == IF pollLog'.nflags < delta THEN pollLog'.nflags ELSE delta
          IN  /\ Len(timers') = Len(timers) + n
              /\ SubSeq(timers', 1, Len(timers)) = timers
              /\ \A k \in 1 .. n :
                    /\ timers'[Len(timers) + k].kind = "present"
                    /\ timers'[Len(timers) + k].index = k - 1]_vars

C5_Witness ==
    /\ HandledPoll
    /\ pollLog.alert
    /\ pollLog.nflags = 1
    /\ pollLog.count - pollLog.prevCount > 1
    /\ pollLog.scheduled = 1

PollToasts == {i \in 1 .. Len(toasts) : toasts[i].source = "poll"}

\* C6: the toast of the flag at index i is inserted 500 ms * i after its
\* poll was handled, so the toasts of one poll appear in response order,
\* consecutive ones 500 ms apart.
C6_StaggeredBy500ms ==
    /\ \A i \in PollToasts :
          toasts[i].insertedAt = toasts[i].base + 500 * toasts[i].index
    /\ \A i, j \in PollToasts :
          (i < j /\ toasts[i].base = toasts[j].base) =>
              /\ toasts[i].index <= toasts[j].index
              /\ toasts[j].insertedAt - toasts[i].insertedAt =
                   500 * (toasts[j].index - toasts[i].index)

C6_Witness ==
    \E i, j \in PollToasts :
        /\ toasts[i].base = toasts[j].base
        /\ toasts[i].index = 0
        /\ toasts[j].index = 1
        /\ toasts[j].insertedAt = toasts[i].insertedAt + 500

\* C7 (as claimed): requestPermission() is invoked only by a click on the
\* enable-notifications control.
C7_RequestOnlyByClick ==
    \A i \in 1 .. Len(requestPermissionCalls) :
        requestPermissionCalls[i] = "click"

\* C8 (as claimed): once the permission is granted, requestPermission() is
\* not invoked again and the enable-notifications control is hidden.
C8_GrantedNeverAsksAgain ==
    [][permission = "granted" =>
          /\ Len(requestPermissionCalls') <= Len(requestPermissionCalls)
          /\ ~EnableBtnVisible']_vars

\* C9 (as claimed): once the permission is denied, requestPermission() is
\* not invoked again, by a poll or by a click.
C9_DeniedNeverAsksAgain ==
    [][permission = "denied" =>
          Len(requestPermissionCalls') <= Len(requestPermissionCalls)]_vars

\* C10 (as claimed): every click that ends in a grant hides the control and
\* gets exactly one confirmation toast (pending for its 1000 ms or
\* presented), on every page that has the control.
C10_GrantGivesOneTestToast ==
    /\ clickLog.grants =
         clickLog.testToasts + Cardinality(PendingOfKind("test"))
    /\ clickLog.grants > 0 => ~EnableBtnVisible

PendingPollRequests ==
    {i \in 1 .. Len(permPending) : permPending[i].origin = "poll"}

\* C11: the alert-firing polls of a page load construct at most one
\* Notification each (at once when the permission is granted, or later from
\* the one permission request the poll made), and a Notification is only
\* ever constructed with the Notification API present and the permission
\* granted, never when it is denied.
C11_AtMostOneOsNotificationPerAlert ==
    [][/\ notifLog'.created + Cardinality(PendingPollRequests') <=
            notifLog'.alertPolls
       /\ notifLog'.created > notifLog.created =>
            /\ notifLog'.created = notifLog.created + 1
            /\ page.hasNotification
            /\ permission' = "granted"]_vars

C11_Witness ==
    /\ notifLog.alertPolls = 1
    /\ notifLog.created = 1
    /\ pollLog.osNotification
    /\ pollLog.nflags = 2

\* C12 (as claimed): a handled poll calls location.reload() exactly when the
\* flagged tab is active at that moment and the response count exceeds a
\* positive lastNotificationCount.
C12_ReloadIffActiveAndDelta ==
    [][(inflight' = inflight - 1 /\ pollLog'.outcome \in {"ok", "threw"}) =>
          (pollLog'.reload <=>
              /\ flaggedTabActive
              /\ pollLog'.count > lastNotificationCount
              /\ lastNotificationCount > 0)]_vars

\* C13 (as claimed): without an audio subsystem an alert-firing poll still
\* schedules its toasts, updates the badge and sets lastNotificationCount to
\* the response count.
C13_NoAudioIsSkippedSilently ==
    (HandledPoll /\ pollLog.alert /\ ~page.hasAudio) =>
        /\ pollLog.scheduled =
             Min(pollLog.nflags, pollLog.count - pollLog.prevCount)
        /\ lastNotificationCount = pollLog.count
        /\ page.hasFlaggedLink => badge = BadgeFor(pollLog.count)

\* C14: a toast the user does not dismiss is inserted without the show
\* class, gets it 100 ms after insertion, gets the hide class 10000 ms after
\* insertion and is detached 300 ms after that, in this order: it is
\* detached by the time the clock passes insertion + 10300 ms (about 10.4 s
\* as the claim rounds it).
C14_ToastLifecycle ==
    \A i \in 1 .. Len(toasts) :
        ~toasts[i].dismissed =>
            LET t == toasts[i].insertedAt IN
            /\ toasts[i].show => now >= t + 100
            /\ now > t + 100 => toasts[i].show
            /\ toasts[i].hide => (toasts[i].show /\ now >= t + 10000)
            /\ now > t + 10000 => toasts[i].hide
            /\ ~toasts[i].attached => (toasts[i].hide /\ now >= t + 10300)
            /\ now > t + 10300 => ~toasts[i].attached

C14_Witness ==
    \E i \in 1 .. Len(toasts) :
        /\ ~toasts[i].dismissed
        /\ toasts[i].show
        /\ toasts[i].hide
        /\ ~toasts[i].attached
        /\ now = toasts[i].insertedAt + 10300

\* C15: a dismissal detaches the toast whose button was clicked and nothing
\* else (the other toasts and all timers are as before); a dismissed toast
\* is never attached again, and every step changes at most one toast, so the
\* callbacks left over from a dismissed toast touch no other toast.
C15_DismissalIsLocal ==
    [][Len(toasts') >= Len(toasts) =>
          \A i \in 1 .. Len(toasts) :
              /\ toasts[i].dismissed =>
                    (toasts'[i].dismissed /\ ~toasts'[i].attached)
              /\ (toasts'[i].dismissed /\ ~toasts[i].dismissed) =>
                    /\ toasts[i].attached
                    /\ ~toasts'[i].attached
                    /\ timers' = timers
                    /\ Len(toasts') = Len(toasts)
              /\ toasts'[i] # toasts[i] =>
                    \A j \in 1 .. Len(toasts) : j # i => toasts'[j] = toasts[j]]_vars

C15_Witness ==
    \E i, j \in 1 .. Len(toasts) :
        /\ i # j
        /\ toasts[i].dismissed
        /\ ~toasts[i].attached
        /\ toasts[i].show
        /\ ~toasts[i].hide
        /\ \E k \in 1 .. Len(timers) :
              timers[k].kind = "hide" /\ timers[k].toast = i
        /\ toasts[j].attached
        /\ ~toasts[j].dismissed

\* C16: for the breathing and for the stretching sequencer at most one
\* interval is running, and when the handle is null (after a stop) none is.
C16_AtMostOneInterval ==
    /\ Cardinality(breathingTimers) <= 1
    /\ Cardinality(stretchingTimers) <= 1
    /\ breathingInterval = 0 => breathingTimers = {}
    /\ stretchingInterval = 0 => stretchingTimers = {}

\* C17: a tick of a breathing interval with a positive countdown decrements
\* it and keeps the phase; a tick at zero moves to the next phase, the first
\* one after the last, with that phase's duration; phaseIndex is always an
\* index of the phase list and the countdown within the phase's duration;
\* an interval ends only by a stop, never by a tick.
C17_BreathingCyclesForEver ==
    [][/\ \A u \in breathingTimers' :
             /\ u.type \in ExerciseTypes
             /\ u.phaseIndex \in 0 .. (Len(Phases(u.type)) - 1)
             /\ u.countdown \in 0 .. Phases(u.type)[u.phaseIndex + 1]
       /\ \A t \in breathingTimers :
             /\ \A u \in breathingTimers' :
                   (u.id = t.id /\ u # t) =>
                       /\ u.type = t.type
                       /\ IF t.countdown > 0
                          THEN /\ u.phaseIndex = t.phaseIndex
                               /\ u.countdown = t.countdown - 1
                          ELSE /\ u.phaseIndex =
                                    (IF t.phaseIndex = Len(Phases(t.type)) - 1
                                     THEN 0 ELSE t.phaseIndex + 1)
                               /\ u.countdown = Phases(t.type)[u.phaseIndex + 1]
             /\ t.id \notin {u.id : u \in breathingTimers'} =>
                   (breathingInterval = t.id /\ breathingInterval' = 0)]_vars

C17_Witness ==
    \E t, u \in breathingTimers :
        /\ t.type = "478"
        /\ t.phaseIndex = 0
        /\ t.countdown = Phases("478")[1]
        /\ u.type = "deep"
        /\ u.phaseIndex = 0
        /\ u.countdown = Phases("deep")[1]

StretchRunning ==
    /\ stretchingTimers = {stretchingInterval}
    /\ stretchingInterval # 0
    /\ stretchingModal = "flex"
    /\ stretchLog.alerts = 0

StretchEnded ==
    /\ stretchingTimers = {}
    /\ stretchingInterval = 0
    /\ stretchingModal = "none"
    /\ stretchLog.alerts = 1
    /\ currentStretchIndex = SequenceLength(stretchSequence)

\* C18: while a started stretching session has had nothing but ticks, it
\* has had at most 30 per stretch; before the last of them it is running
\* the stretch and the countdown the ticks add up to, and with the last of
\* them it has ended: no interval, the modal hidden, one completion alert.
\* The alert is shown at most once per session, and a Next click or a tick
\* that leaves the last stretch ends the session in that same state.
C18_StretchingTerminates ==
    [][LET n == SequenceLength(stretchSequence') IN
       /\ (stretchSequence' # "" /\ ~stretchLog'.skipped /\ ~stretchLog'.stopped) =>
             /\ stretchLog'.ticks <= 30 * n
             /\ stretchLog'.ticks < 30 * n =>
                   /\ StretchRunning'
                   /\ currentStretchIndex' = stretchLog'.ticks \div 30
                   /\ stretchCountdown' = 30 - (stretchLog'.ticks % 30)
             /\ stretchLog'.ticks = 30 * n => StretchEnded'
       /\ stretchLog'.alerts <= 1
       /\ stretchLog'.alerts = 1 => StretchEnded'
       /\ (/\ StretchRunning
           /\ currentStretchIndex = n - 1
           /\ currentStretchIndex' = n) => StretchEnded']_vars

C18_Witness ==
    /\ stretchSequence = "full"
    /\ ~stretchLog.skipped
    /\ ~stretchLog.stopped
    /\ stretchLog.ticks = 30 * 6
    /\ StretchEnded

\* C19: a submit is blocked exactly when a required field is empty after
\* trimming, the password and its confirmation differ, or the password has
\* fewer than 8 characters: on the registration form with the password
\* conditions only where the password fields exist, on the password-change
\* form with the two password conditions.
C19_BlockedExactlyWhenInvalid ==
    submitLog.form # "none" =>
        (submitLog.blocked <=>
            IF form.kind = "registration"
            THEN \/ Trim(form.required) = <<>>
                 \/ form.hasPasswordFields /\ form.password # form.confirm
                 \/ form.hasPasswordFields /\ Len(form.password) < 8
            ELSE \/ form.newPassword # form.confirmPassword
                 \/ Len(form.newPassword) < 8)

\* C20: once the DOMContentLoaded event of a page variant has been handled,
\* no listener has thrown and every subsystem whose elements the page holds
\* has been set up.
C20_InitCompletesOnEveryVariant ==
    studentPage.loaded =>
        /\ studentPage.uncaught = {}
        /\ studentPage.elements.hasChat => "chat" \in studentPage.ready
        /\ studentPage.elements.hasBreathing => "breathing" \in studentPage.ready
        /\ studentPage.elements.hasStretching => "stretching" \in studentPage.ready
        /\ studentPage.elements.hasReset => "resetPassword" \in studentPage.ready
        /\ {"mobileMenu", "navigation", "mood", "autoHideAlerts"} \subseteq studentPage.ready

\* C26: a toast presentation that a poll scheduled leaves the timer queue
\* only by being carried out, that is by its toast being inserted into the
\* container, also when the poll that scheduled it forces a reload.
C26_ScheduledToastsArePresented ==
    [][Cardinality({i \in 1 .. Len(timers') : timers'[i].kind = "present"})
         < Cardinality({i \in 1 .. Len(timers) : timers[i].kind = "present"})
       => Len(toasts') = Len(toasts) + 1]_vars

\* C29: whenever a stretching interval is running, currentStretchIndex is an
\* index of stretchSequence and stretchCountdown is between 1 and 30.  A
\* tick that stays in the stretch takes one off a countdown above 1; every
\* stretch shown (by a start, a Next click or the tick at countdown 1)
\* starts with the countdown at 30; in a session without a Next click the
\* running stretch is the one 30 ticks per stretch lead to.
C29_StretchIndexAndCountdownInRange ==
    [][LET n == SequenceLength(stretchSequence') IN
       /\ stretchingTimers' # {} =>
             /\ currentStretchIndex' \in 0 .. (n - 1)
             /\ stretchCountdown' \in 1 .. 30
       /\ (/\ stretchingTimers # {}
           /\ stretchingTimers' # {}
           /\ stretchingInterval' = stretchingInterval
           /\ stretchCountdown' # stretchCountdown) =>
             /\ stretchCountdown > 1
             /\ stretchCountdown' = stretchCountdown - 1
             /\ currentStretchIndex' = currentStretchIndex
       /\ (stretchingTimers' # {} /\ stretchingInterval' # stretchingInterval) =>
             stretchCountdown' = 30
       /\ (stretchingTimers' # {} /\ ~stretchLog'.skipped) =>
             /\ currentStretchIndex' = stretchLog'.ticks \div 30
             /\ stretchCountdown' = 30 - (stretchLog'.ticks % 30)]_vars

C29_Witness ==
    /\ stretchingTimers # {}
    /\ stretchSequence = "neck"
    /\ stretchLog.skipped
    /\ stretchLog.ticks > 0
    /\ currentStretchIndex = SequenceLength("neck") - 1
    /\ stretchCountdown = 1

\* C30: on the reset-password page and on a password-change form whose
\* listeners are registered, the submit button is disabled exactly when the
\* confirmation is not empty and differs from the new password.
C30_DisabledIffMismatch ==
    (form.kind \in {"passwordChange", "resetPassword"} /\ form.handlers) =>
        (form.submitDisabled <=>
            (form.confirmPassword # <<>> /\ form.confirmPassword # form.newPassword))

\* The five criteria of the strength meters met by p, counted.
CriteriaMet(p) ==
    Cardinality({k \in 1 .. 5 :
        \/ k = 1 /\ Len(p) >= 8
        \/ k = 2 /\ Len(p) >= 12
        \/ k = 3 /\ (\E i, j \in 1 .. Len(p) : p[i] = "a" /\ p[j] = "A")
        \/ k = 4 /\ (\E i \in 1 .. Len(p) : p[i] = "1")
        \/ k = 5 /\ (\E i \in 1 .. Len(p) : p[i] = "!")})

\* C23: whatever is appended to a password, the score checkPasswordStrength
\* and the score getStrength give to the longer password are at least the
\* scores of the shorter one, and each score counts the criteria met.
C23_ScoreMonotonicUnderAppending ==
    [][(/\ Len(strengthField'.value) > Len(strengthField.value)
        /\ SubSeq(strengthField'.value, 1, Len(strengthField.value))
             = strengthField.value) =>
          /\ strengthField'.change.level >= strengthField.change.level
          /\ strengthField'.reset.score >= strengthField.reset.score
          /\ strengthField'.change.level = CriteriaMet(strengthField'.value)
          /\ strengthField'.reset.score = CriteriaMet(strengthField'.value)]_vars

C23_Witness ==
    /\ Len(strengthField.value) >= 12
    /\ strengthField.change.level = 5
    /\ strengthField.reset.score = 5
    /\ strengthField.value[1] = "!"

\* C24: checkPasswordStrength returns the number of criteria met, from 0 to
\* 5, and the label of that number: weak for 0 and 1, fair for 2, good for
\* 3, strong for 4 and 5.
C24_ScoreAndLabel ==
    LET r == strengthField.change IN
    strengthField # NoStrengthField =>
        /\ r.level \in 0 .. 5
        /\ r.level = CriteriaMet(strengthField.value)
        /\ r.text = (CASE r.level \in {0, 1} -> "Weak password"
                       [] r.level = 2 -> "Fair password"
                       [] r.level = 3 -> "Good password"
                       [] r.level \in {4, 5} -> "Strong password")

C24_Witness ==
    /\ strengthField # NoStrengthField
    /\ Len(strengthField.value) \in 8 .. 11
    /\ \E i, j, k, l \in 1 .. Len(strengthField.value) :
          /\ strengthField.value[i] = "a"
          /\ strengthField.value[j] = "A"
          /\ strengthField.value[k] = "1"
          /\ strengthField.value[l] = "!"
    /\ strengthField.change.level = 4
    /\ strengthField.change.text = "Strong password"

\* C21: a send with a non-blank message displays the user's message and
\* puts one request in flight; the end of that request, whatever its
\* outcome, appends exactly one assistant message at the end of the panel:
\* the reply on success, the fallback text otherwise.
C21_OneAssistantMessagePerSend ==
    [][/\ \A n \in chatRequests :
             n \notin chatRequests' =>
                 /\ chatPanel'.messages \in
                        {Append(chatPanel.messages, AssistantMessage(n, kind)) :
                             kind \in {"reply", "fallback"}}
                 /\ chatPanel'.messages[Len(chatPanel'.messages)].kind = "reply"
                        <=> chatLog'[n].outcome = "success"
       /\ Len(chatLog') > Len(chatLog) =>
             /\ chatPanel'.messages =
                   Append(chatPanel.messages, UserMessage(Len(chatLog')))
             /\ Len(chatLog') \in chatRequests'
       /\ \A n \in 1 .. Len(chatLog') :
             chatLog'[n].appended = (IF n \in chatRequests' THEN 0 ELSE 1)]_vars

C21_Witness ==
    /\ Len(chatLog) = 2
    /\ chatRequests = {}
    /\ chatLog[1].outcome = "decode"
    /\ chatLog[2].outcome = "success"
    /\ chatPanel.messages =
           <<UserMessage(1), UserMessage(2), AssistantMessage(1, "fallback"),
             AssistantMessage(2, "reply")>>

\* C22: a save leaves in the stored log, under the user's current calendar
\* day, the mood just saved, and leaves the entries of all other days as
\* they were.
C22_SaveMoodMergesByDay ==
    [][(moodTracker'.clock = moodTracker.clock /\ moodTracker' # moodTracker) =>
          LET today == (moodTracker.clock + moodTracker.offset) \div 24 IN
          /\ moodTracker'.history[today] = moodTracker'.saved[today]
          /\ \A d \in DOMAIN moodTracker.history :
                d # today => moodTracker'.history[d] = moodTracker.history[d]]_vars

\* C27: the typing indicator is shown exactly while a chat request is in
\* flight.
C27_TypingIndicatorWhileOutstanding ==
    (chatPanel.typing = "flex") <=> (chatRequests # {})

\* C28: a message sendMessage displayed (the user's message or the
\* assistant message of a send) is still displayed after every step.
C28_SentMessagesStayDisplayed ==
    [][\A i \in 1 .. Len(chatPanel.messages) :
          chatPanel.messages[i].id >= 1 =>
              \E j \in 1 .. Len(chatPanel'.messages) :
                  chatPanel'.messages[j] = chatPanel.messages[i]]_vars

\* C25: with a server count that never decreases and answers handled in any
\* order, the toasts scheduled over the session number at most the highest
\* count handled minus the first positive count recorded in
\* lastNotificationCount, and none before a positive count is recorded.
C25_NoIncreaseAlertedTwice ==
    pollSession.scheduled <=
        (IF pollSession.first > 0
         THEN pollSession.highest - pollSession.first ELSE 0)

====
